---- MODULE Spec2Model ----
(***************************************************************************)
(* The typing session of rstype (src/src/app.rs) as a state machine: one   *)
(* action per iteration of App::run's input loop and per iteration of     *)
(* App::replay's loop.  Strings are sequences of one-character strings,    *)
(* indexed from 0 in the operators that mirror Rust slicing (element i of  *)
(* a Rust string is element i+1 of the sequence).                          *)
(***************************************************************************)
EXTENDS Integers, Sequences, FiniteSets, TLC

----------------------------------------------------------------------------
(* Bounds of the exploration *)

MaxKeys == 4        \* logged keystrokes per execution (full input alphabet)
MaxKeysDeep == 6    \* logged keystrokes per execution (reduced input alphabet)
MaxKeysReplay == 5  \* logged keystrokes per execution (runs that are replayed)
MaxKeysEdit == 7    \* logged keystrokes per execution (runs that fill the word buffer)
MaxTime == 1        \* idle polls that let the clock advance
MaxRuns == 1        \* retries per execution
MaxReplays == 1     \* replays per completed run
MaxSwitches == 1    \* text switches per execution
MaxWords == 11      \* words of a text handed to word_wrap on its own
MaxChars == 3       \* characters of a string handed to the diff on its own
MaxDifficulty == 7  \* largest difficulty handed to the difficulty loader
MaxSaves == 3       \* save_history calls made on a history file of their own

----------------------------------------------------------------------------
(* Small helpers *)

Min(a, b) == IF a < b THEN a ELSE b
Max(a, b) == IF a > b THEN a ELSE b

Spaces(n) == [i \in 1..n |-> " "]

RECURSIVE GCD(_, _)
GCD(a, b) == IF b = 0 THEN a ELSE GCD(b, a % b)

\* An f64 quotient n/d of two non-negative integers, kept exact.  d = 0
\* gives the IEEE results: inf for n > 0 and NaN for n = 0.
Ratio(n, d) ==
    IF d = 0 THEN (IF n = 0 THEN [num |-> 0, den |-> 0] ELSE [num |-> 1, den |-> 0])
    ELSE LET g == GCD(n, d) IN [num |-> n \div g, den |-> d \div g]

Zero == Ratio(0, 1)
Hundred == Ratio(100, 1)
RatLess(x, y) == x.den # 0 /\ y.den # 0 /\ x.num * y.den < y.num * x.den

----------------------------------------------------------------------------
(* pancurses::Input values the model feeds *)

Chr(c) == [kind |-> "Character", c |-> c]
Key(k) == [kind |-> k, c |-> ""]

ESC == "\\x1b"
CTRL_C == "\\x03"
CTRL_T == "\\x14"
CTRL_W == "\\x17"
DEL == "\\x7f"
TAB == "\\t"

CharKeys == { Chr(c) : c \in {"a", "1", " ", TAB, ESC, CTRL_C, CTRL_T, CTRL_W, DEL} }
OtherKeys == { Key(k) : k \in {"KeyExit", "KeyResize", "KeyBackspace", "KeyEnter",
                               "KeyLeft", "KeyRight"} }
AllKeys == CharKeys \cup OtherKeys
\* The keys fed before the first valid key of a run, and once a run is under
\* way: at least one key of each class the handlers tell apart there
FreshKeys == { Chr("a"), Chr("1"), Chr(" "), Chr(TAB), Chr(ESC), Chr(CTRL_C),
               Key("KeyExit"), Key("KeyResize"), Key("KeyBackspace"), Key("KeyEnter"),
               Key("KeyLeft"), Key("KeyRight") }
MidRunKeys == { Chr("a"), Chr("1"), Chr(" "), Chr(CTRL_C), Chr(CTRL_W),
                Key("KeyExit"), Key("KeyResize"), Key("KeyBackspace"), Key("KeyLeft") }
DeepKeys == { Chr("a"), Chr("1"), Chr(" "), Key("KeyResize"), Key("KeyBackspace") }
\* The keys of a run that is replayed after a change of window
ReplayRunKeys == { Chr("a"), Chr(" "), Key("KeyResize") }
ReplayEndKeys == { Key("KeyResize"), Key("KeyEnter") }
\* The keys of a run that fills and empties the word buffer
EditKeys == { Chr("a"), Chr("1"), Chr(" "), Chr(CTRL_W), Key("KeyBackspace") }
NoKey == Key("None")

----------------------------------------------------------------------------
(* keycheck.rs *)

\* Variant: Escape taken for the ESC character
is_escape_char(key) == key.kind = "Character" /\ key.c = ESC

is_escape(key) == key.kind = "KeyExit"
is_ctrl_c(key) == key.kind = "Character" /\ key.c = CTRL_C
is_valid_initial_key(key) == key.kind = "Character"
is_ctrl_t(key) == key.kind = "Character" /\ key.c = CTRL_T
is_enter(key) == key.kind = "KeyEnter"
is_tab(key) == key.kind = "Character" /\ key.c = TAB
is_resize(key) == key.kind = "KeyResize"
is_backspace(key) ==
    \/ key.kind = "KeyBackspace"
    \/ key.kind = "Character" /\ key.c = DEL
is_ctrl_backspace(key) == key.kind = "Character" /\ key.c = CTRL_W
get_key_mapping(key) == IF key.kind = "Character" THEN <<key.c>> ELSE <<key.kind>>

----------------------------------------------------------------------------
(* calculations.rs *)

\* A character that UTF-8 encodes in two bytes
E_ACUTE == "\\u00e9"

\* char::len_utf8
len_utf8(c) == IF c = E_ACUTE THEN 2 ELSE 1

\* str::len: the length in bytes
RECURSIVE str_len(_)
str_len(str) == IF str = << >> THEN 0 ELSE len_utf8(Head(str)) + str_len(Tail(str))

\* str.chars().nth(index): << >> is None, <<c>> is Some(c)
nth(str, index) == IF index < Len(str) THEN <<str[index + 1]>> ELSE << >>

RECURSIVE differ_scan(_, _, _, _)
differ_scan(string1, string2, index, length) ==
    IF index >= length THEN length
    ELSE IF nth(string1, index) # nth(string2, index) THEN index
    ELSE differ_scan(string1, string2, index + 1, length)

first_index_at_which_strings_differ(string1, string2) ==
    differ_scan(string1, string2, 0, Min(str_len(string1), str_len(string2)))

\* ceil(len / width) for width > 0
number_of_lines_to_fit_text_in_window(string, window_width) ==
    (Len(string) + window_width - 1) \div window_width

\* Variant: the share of wrongly typed characters
accuracy_of_wrong(total_chars_typed, wrongly_typed) ==
    Ratio(wrongly_typed * 100, total_chars_typed)

accuracy_of(total_chars_typed, wrongly_typed) ==
    Ratio((total_chars_typed - wrongly_typed) * 100, total_chars_typed)

RECURSIVE get_space_count_after_ith_word(_, _)
get_space_count_after_ith_word(index, text) ==
    IF index < Len(text) /\ text[index + 1] = " "
    THEN 1 + get_space_count_after_ith_word(index + 1, text)
    ELSE 0

\* str::rfind(' ') on a string: the 0-based index of the last space, -1 for None
RECURSIVE rfind_space(_)
rfind_space(str) ==
    IF Len(str) = 0 THEN -1
    ELSE IF str[Len(str)] = " " THEN Len(str) - 1
    ELSE rfind_space(SubSeq(str, 1, Len(str) - 1))

\* The body of word_wrap's for loop, lines line..last; ok = FALSE is the
\* unwrap() of a failed rfind.
RECURSIVE word_wrap_loop(_, _, _, _)
word_wrap_loop(text, width, line, last) ==
    IF line > last THEN [ok |-> TRUE, text |-> text]
    ELSE IF line * width >= Len(text) THEN word_wrap_loop(text, width, line + 1, last)
    ELSE LET index == line * width - 1 IN
         IF text[index + 1] = " " THEN word_wrap_loop(text, width, line + 1, last)
         ELSE LET sp == rfind_space(SubSeq(text, 1, index)) IN
              IF sp = -1 THEN [ok |-> FALSE, text |-> text]
              ELSE LET space_count == line * width - sp
                       first == SubSeq(text, 1, sp)
                       third == SubSeq(text, sp + 2, Len(text))
                   IN word_wrap_loop(first \o Spaces(space_count) \o third,
                                     width, line + 1, last)

word_wrap(text, width) ==
    word_wrap_loop(text, width, 1, number_of_lines_to_fit_text_in_window(text, width) + 1)

----------------------------------------------------------------------------
(* The text corpus (database.rs) and text preparation *)

row_count == 6000

\* Rows of data.db the model visits; a row may hold repeated or trailing
\* white space, which from_prepared_text and switch_text normalise.
DbText(id) ==
    IF id = 2 THEN <<"a", "\n">>
    ELSE IF id = row_count THEN <<"a", " ", " ", "a", "a", "\n">>
    ELSE IF id = row_count - 1 THEN <<"a", " ", "a", "a">>
    ELSE <<"a", "a">>

\* A text id is a string: the decimal form of a row number, or a file path
to_string(n) == [decimal |-> TRUE, n |-> n]
parse_i32(id) == [ok |-> id.decimal, n |-> id.n]

\* A text file given with --file: here an empty one.
FileText == << >>
FileId == [decimal |-> FALSE, n |-> 0]

\* load_text_from_database: Ok((text, id)) inside [1, row_count], else OutOfRangeError
load_text_from_database(text_id) ==
    IF 1 <= text_id /\ text_id <= row_count
    THEN [ok |-> TRUE, text |-> DbText(text_id), id |-> to_string(text_id)]
    ELSE [ok |-> FALSE, text |-> << >>, id |-> to_string(text_id)]

\* fetch_text_with_id: the txt column of the row with that id
fetch_text_with_id(serial_id) == DbText(serial_id)

\* rand: gen_range(low..high) draws from the half-open range
gen_range(low, high) == low..(high - 1)

max_level == 5

DifficultyOutOfRangeError(n) == [name |-> "DifficultyOutOfRangeError", n |-> n]
NoError == [name |-> "none", n |-> 0]

lower_limit_from_zero(upper_limit) == upper_limit - 1200
lower_limit(upper_limit) == upper_limit - 1200 + 1

\* load_text_from_database_based_on_difficulty: the outcomes the random draw
\* allows; fetched lists the ids read from the corpus
load_text_from_database_based_on_difficulty(difficulty) ==
    IF 1 <= difficulty /\ difficulty <= max_level
    THEN LET upper_limit == difficulty * 1200 IN
         { [ok |-> TRUE, text |-> fetch_text_with_id(text_id), id |-> to_string(text_id),
            err |-> NoError, fetched |-> <<text_id>>] :
              text_id \in gen_range(lower_limit(upper_limit), upper_limit + 1) }
    ELSE { [ok |-> FALSE, text |-> << >>, id |-> to_string(0),
            err |-> DifficultyOutOfRangeError(difficulty), fetched |-> << >>] }

IsWhite(c) == c \in {" ", "\n", "\t"}

\* str::split_ascii_whitespace, scanning from position i with the token cur in progress
RECURSIVE split_scan(_, _, _)
split_scan(text, i, cur) ==
    IF i > Len(text) THEN (IF cur = << >> THEN << >> ELSE <<cur>>)
    ELSE IF IsWhite(text[i])
         THEN (IF cur = << >> THEN << >> ELSE <<cur>>) \o split_scan(text, i + 1, << >>)
         ELSE split_scan(text, i + 1, Append(cur, text[i]))

split_ascii_whitespace(text) == split_scan(text, 1, << >>)

\* tokens.join(" ")
RECURSIVE join(_)
join(tokens) ==
    IF tokens = << >> THEN << >>
    ELSE IF Len(tokens) = 1 THEN tokens[1]
    ELSE tokens[1] \o <<" ">> \o join(Tail(tokens))

RECURSIVE max_len(_)
max_len(tokens) ==
    IF tokens = << >> THEN 0 ELSE Max(Len(tokens[1]), max_len(Tail(tokens)))

----------------------------------------------------------------------------
(* State *)

VARIABLES
    app,          \* the App struct (src/src/app.rs:36-86)
    hist,         \* rows of ~/.rstype_history.csv; << >> when the file is missing
    now,          \* the wall clock, in ticks
    screen,       \* <<height, width>> of the terminal, as win.get_max_yx() reports it
    status,       \* "running", "exited" (exit(0)), "panicked", "error" (run returned Err)
    fault,        \* what ended the program
    replay_pos,   \* 0, or the index of the next entry App::replay feeds
    replay_keys,  \* key_strokes.clone() of the replay in progress
    next_tick,    \* replay's virtual clock
    finishes,     \* Typing-to-Finished transitions since the last reset_test
    replays,      \* replays since the last reset_test
    switches,     \* text switches so far
    pressed,      \* keystrokes logged so far
    typo,         \* a typed character differed from the reference since the last reset_test
    live,         \* what the live run left at its Typing-to-Finished transition
    profile,      \* which input alphabet the run loop is fed
    probe         \* a library function called on its own: its arguments and its result

vars == <<app, hist, now, screen, status, fault, replay_pos, replay_keys,
          next_tick, finishes, replays, switches, pressed, typo, live, profile,
          probe>>

EnvFields == {"hist", "now", "screen", "status", "fault", "replay_pos",
              "replay_keys", "next_tick", "finishes", "replays", "switches", "pressed",
              "typo", "live"}

\* The whole state a handler reads and writes, as one record
World(scr) ==
    app @@ [hist |-> hist, now |-> now, screen |-> scr, status |-> status,
            fault |-> fault, replay_pos |-> replay_pos, replay_keys |-> replay_keys,
            next_tick |-> next_tick, finishes |-> finishes, replays |-> replays,
            switches |-> switches, pressed |-> pressed, typo |-> typo, live |-> live]

\* The fault of a window too narrow for a word
LayoutFault == "word_wrap: no space before the line end"

Ok(s) == s.status = "running"
Fail(s, st, why) == [s EXCEPT !.status = st, !.fault = why]
exit(s) == Fail(s, "exited", "exit(0)")

\* App::from_prepared_text
from_prepared_text(text, text_id, t) ==
    LET tokens == split_ascii_whitespace(text) IN
    [ text |-> join(tokens),
      text_id |-> text_id,
      tokens |-> tokens,
      text_backup |-> join(tokens),
      current_word |-> << >>,
      current_string |-> << >>,
      first_key_pressed |-> FALSE,
      key_strokes |-> << >>,
      mistyped_keys |-> << >>,
      start_time |-> t,
      end_time |-> t,
      token_index |-> 0,
      mode |-> 0,
      window_height |-> 0,
      window_width |-> 0,
      number_of_lines_to_print_text |-> 0,
      current_word_limit |-> max_len(tokens) + 5,
      test_complete |-> FALSE,
      current_speed_wpm |-> Zero,
      accuracy |-> Zero,
      time_taken |-> Zero,
      total_chars_typed |-> 0 ]

----------------------------------------------------------------------------
(* history.rs *)

HistoryHeader == <<"ID", "WPM", "DATE", "TIME", "ACCURACY">>

\* format!("{:.2}", x): x in hundredths, rounded to nearest, ties to even
Format2(x) ==
    IF x.den = 0 THEN (IF x.num = 0 THEN "NaN" ELSE "inf")
    ELSE LET q == (x.num * 100) \div x.den
             r == (x.num * 100) % x.den
         IN IF 2 * r > x.den \/ (2 * r = x.den /\ q % 2 = 1) THEN q + 1 ELSE q

\* A save that creates the file anew on every call
save_history_truncating(s, text_id, current_speed_wpm, accuracy) ==
    [s EXCEPT !.hist = <<HistoryHeader,
                         <<text_id, Format2(current_speed_wpm), s.now, s.now,
                           Format2(accuracy)>> >>]

\* save_history: the header is written when the file did not exist, then one record
save_history(s, text_id, current_speed_wpm, accuracy) ==
    LET file == IF s.hist = << >> THEN <<HistoryHeader>> ELSE s.hist
        test_data == <<text_id, Format2(current_speed_wpm), s.now, s.now, Format2(accuracy)>>
    IN [s EXCEPT !.hist = Append(file, test_data)]

NumRecords(file) == IF file = << >> THEN 0 ELSE Len(file) - 1

----------------------------------------------------------------------------
(* app.rs: the session *)

\* The results of a run, as the end-of-test screen shows them
Results(s) ==
    [ current_string |-> s.current_string,
      mistyped_keys |-> s.mistyped_keys,
      current_speed_wpm |-> s.current_speed_wpm,
      accuracy |-> s.accuracy,
      time_taken |-> s.time_taken ]

NoRun ==
    [ current_string |-> << >>, mistyped_keys |-> << >>, current_speed_wpm |-> Zero,
      accuracy |-> Zero, time_taken |-> Zero ]

\* App::reset_test
reset_test(s) ==
    [s EXCEPT !.mode = 0,
              !.current_word = << >>,
              !.current_string = << >>,
              !.first_key_pressed = FALSE,
              !.key_strokes = << >>,
              !.mistyped_keys = << >>,
              !.start_time = s.now,
              !.token_index = 0,
              !.current_speed_wpm = Zero,
              !.total_chars_typed = 0,
              !.accuracy = Zero,
              !.time_taken = Zero,
              !.test_complete = FALSE,
              !.finishes = 0,
              !.replays = 0,
              !.typo = FALSE,
              !.live = NoRun]

\* timer::get_elapsed_minutes_since_first_keypress, in ticks of a second
elapsed_ticks(s) == s.now - s.start_time

\* calculations::speed_in_wpm: tokens / (elapsed / 60)
speed_in_wpm(tokens, elapsed) == Ratio(Len(tokens) * 60, elapsed)

\* The in-place loop of test_end over key_strokes, index from Len - 1 down to 1
RECURSIVE delta_loop(_, _)
delta_loop(ks, index) ==
    IF index < 1 THEN ks
    ELSE delta_loop([ks EXCEPT ![index + 1].t = ks[index + 1].t - ks[index].t], index - 1)

\* Variant: the first entry keeps its absolute timestamp
delta_encode_keeping_first(ks) == delta_loop(ks, Len(ks) - 1)

delta_encode(ks) ==
    LET d == delta_loop(ks, Len(ks) - 1) IN [d EXCEPT ![1].t = 0]

\* Variant: statistics recomputed at every end of test
stats_always(s) == TRUE

\* test_end recomputes the statistics only in test mode
stats_due(s) == s.mode = 0

\* Variant: every end of test saved
history_always(s) == TRUE

\* test_end saves the run unless it has been saved
history_due(s) == ~s.test_complete

\* App::test_end
test_end(s) ==
    IF ~Ok(s) THEN s
    ELSE IF \E k \in 1..Len(s.mistyped_keys) : s.mistyped_keys[k] >= Len(s.text)
    THEN Fail(s, "panicked", "test_end: mistyped index outside text")
    ELSE IF stats_due(s) /\ s.total_chars_typed < Len(s.text_backup)
    THEN Fail(s, "panicked", "test_end: total_chars_typed - total_chars_in_text overflows")
    ELSE IF stats_due(s) /\ Len(s.key_strokes) = 0
    THEN Fail(s, "panicked", "test_end: key_strokes.len() - 1 on an empty log")
    ELSE
    LET s1 == IF stats_due(s)
              THEN [s EXCEPT
                      !.current_speed_wpm = speed_in_wpm(s.tokens, elapsed_ticks(s)),
                      !.accuracy = accuracy_of(s.total_chars_typed,
                                               s.total_chars_typed - Len(s.text_backup)),
                      !.time_taken = Ratio(elapsed_ticks(s), 60),
                      !.mode = 1,
                      !.key_strokes = delta_encode(s.key_strokes),
                      !.finishes = s.finishes + (IF s.mode = 0 THEN 1 ELSE 0)]
              ELSE s
        s2 == [s1 EXCEPT !.first_key_pressed = FALSE,
                         !.end_time = s.now,
                         !.current_string = << >>,
                         !.current_word = << >>,
                         !.token_index = 0,
                         !.start_time = s.now]
        s3 == IF s.mode = 0 THEN [s2 EXCEPT !.live = Results(s2)] ELSE s2
    IN IF history_due(s3)
       THEN [save_history(s3, s3.text_id, s3.current_speed_wpm, s3.accuracy)
                EXCEPT !.test_complete = TRUE]
       ELSE s3

\* update_state records the last typed position when the typed text has left the reference
mistyped_now(s, index) ==
    index < Len(s.current_string) /\ Len(s.current_string) <= Len(s.text)

\* Variant: the test ends one character past the end of the text
finished_late(s, index) == index = Len(s.text) + 1

\* update_state ends the test when all characters are typed out
finished_now(s, index) == index = Len(s.text)

\* App::update_state
update_state(s) ==
    IF ~Ok(s) THEN s
    ELSE IF Len(s.current_string) > Len(s.text)
    THEN Fail(s, "panicked", "update_state: text[0..current_string.len()] out of range")
    ELSE
    LET index == first_index_at_which_strings_differ(s.current_string, s.text)
        s1 == IF mistyped_now(s, index)
              THEN [s EXCEPT !.mistyped_keys = Append(@, Len(s.current_string) - 1)]
              ELSE s
    IN IF finished_now(s, index) THEN test_end(s1) ELSE s1

\* App::screen_size_check
screen_size_check(s) ==
    IF ~Ok(s) THEN s
    ELSE LET lines == number_of_lines_to_fit_text_in_window(s.text, s.window_width) + 3
             s1 == [s EXCEPT !.number_of_lines_to_print_text = lines]
         IN IF lines + 7 >= s.window_height THEN exit(s1) ELSE s1

\* App::initialize_windows, on the freshly constructed App
initialize_windows(s) ==
    LET s1 == [s EXCEPT !.window_height = s.screen[1], !.window_width = s.screen[2]]
        w == word_wrap(s1.text, s1.window_width)
    IN IF ~w.ok THEN Fail(s1, "panicked", LayoutFault)
       ELSE screen_size_check([s1 EXCEPT !.text = w.text])

\* Variant: the resize wraps the text the session shows, wrapped before
resize_rewrapping(s) ==
    IF ~Ok(s) THEN s
    ELSE
    LET s1 == [s EXCEPT !.window_height = s.screen[1], !.window_width = s.screen[2]]
        w == word_wrap(s1.text, s1.window_width)
    IN IF ~w.ok THEN Fail(s1, "panicked", LayoutFault)
       ELSE update_state(screen_size_check([s1 EXCEPT !.text = w.text]))

\* App::resize
resize(s) ==
    IF ~Ok(s) THEN s
    ELSE
    LET s1 == [s EXCEPT !.window_height = s.screen[1], !.window_width = s.screen[2]]
        w == word_wrap(s1.text_backup, s1.window_width)
    IN IF ~w.ok THEN Fail(s1, "panicked", LayoutFault)
       ELSE update_state(screen_size_check([s1 EXCEPT !.text = w.text]))

\* Variant: the character is taken from the current word only
erase_key_word_only(s) ==
    IF ~Ok(s) THEN s
    ELSE IF s.current_word # << >>
    THEN [s EXCEPT !.current_word = SubSeq(@, 1, Len(@) - 1)]
    ELSE s

\* App::erase_key
erase_key(s) ==
    IF ~Ok(s) THEN s
    ELSE IF s.current_word # << >>
    THEN [s EXCEPT !.current_word = SubSeq(@, 1, Len(@) - 1),
                   !.current_string = SubSeq(@, 1, Len(@) - 1)]
    ELSE s

\* Variant: the erasure takes one character more from current_string
erase_word_past_boundary(s) ==
    IF ~Ok(s) THEN s
    ELSE IF s.current_word # << >>
    THEN LET index_word == rfind_space(s.current_word) IN
         IF index_word = -1 THEN Fail(s, "error", "erase_word: NoCharFoundError(' ')")
         ELSE LET diff == Len(s.current_word) - index_word IN
              IF diff + 1 > Len(s.current_string)
              THEN Fail(s, "panicked", "erase_word: current_string slice out of range")
              ELSE [s EXCEPT
                      !.current_word = SubSeq(@, 1, Len(@) - diff),
                      !.current_string = SubSeq(@, 1, Len(@) - diff - 1)]
    ELSE s

\* App::erase_word
erase_word(s) ==
    IF ~Ok(s) THEN s
    ELSE IF s.current_word # << >>
    THEN LET index_word == rfind_space(s.current_word) IN
         IF index_word = -1 THEN Fail(s, "error", "erase_word: NoCharFoundError(' ')")
         ELSE LET diff == Len(s.current_word) - index_word IN
              IF diff > Len(s.current_string)
              THEN Fail(s, "panicked", "erase_word: current_string slice out of range")
              ELSE [s EXCEPT
                      !.current_word = SubSeq(@, 1, Len(@) - diff),
                      !.current_string = SubSeq(@, 1, Len(@) - diff)]
    ELSE s

\* App::appendkey
appendkey(s, key) ==
    IF Len(s.current_word) < s.current_word_limit
    THEN [s EXCEPT !.current_word = @ \o key, !.current_string = @ \o key]
    ELSE s

\* Variant: a mismatched word moves the run on to the next token
check_word_skipping(s) ==
    IF ~Ok(s) THEN s
    ELSE IF s.token_index >= Len(s.tokens)
    THEN Fail(s, "panicked", "check_word: tokens[token_index] out of range")
    ELSE IF s.current_word = s.tokens[s.token_index + 1]
    THEN [s EXCEPT !.token_index = @ + 1,
                   !.current_word = << >>,
                   !.current_string = @ \o Spaces(
                       get_space_count_after_ith_word(Len(s.current_string), s.text))]
    ELSE [s EXCEPT !.token_index = @ + 1,
                   !.current_word = @ \o <<" ">>,
                   !.current_string = @ \o <<" ">>]

\* App::check_word
check_word(s) ==
    IF ~Ok(s) THEN s
    ELSE LET spc == get_space_count_after_ith_word(Len(s.current_string), s.text) IN
    IF s.token_index >= Len(s.tokens)
    THEN Fail(s, "panicked", "check_word: tokens[token_index] out of range")
    ELSE IF s.current_word = s.tokens[s.token_index + 1]
    THEN [s EXCEPT !.token_index = @ + 1,
                   !.current_word = << >>,
                   !.current_string = @ \o Spaces(spc)]
    ELSE [s EXCEPT !.current_word = @ \o <<" ">>,
                   !.current_string = @ \o <<" ">>]

\* The keystroke put a character into current_string that is not the
\* reference's character at that position
typed_mismatch(s, s1) ==
    /\ s.mode = 0
    /\ Len(s1.current_string) > Len(s.current_string)
    /\ LET p == Len(s.current_string) IN
       p >= Len(s1.text) \/ s1.current_string[p + 1] # s1.text[p + 1]

noting_typo(s, s1) ==
    IF Ok(s1) /\ typed_mismatch(s, s1) THEN [s1 EXCEPT !.typo = TRUE] ELSE s1

\* Variant: a space is a character like any other, no word is submitted
key_printer_unchecked(s, key) ==
    IF ~Ok(s) THEN s
    ELSE IF is_escape(key) THEN update_state(reset_test(s))
    ELSE IF is_ctrl_c(key) THEN exit(s)
    ELSE IF is_resize(key) THEN update_state(resize(s))
    ELSE IF is_backspace(key) THEN update_state(erase_key(s))
    ELSE IF is_ctrl_backspace(key) THEN update_state(erase_word(s))
    ELSE IF is_valid_initial_key(key)
    THEN LET s1 == appendkey(s, get_key_mapping(key)) IN
         update_state(noting_typo(s, [s1 EXCEPT !.total_chars_typed = @ + 1]))
    ELSE update_state(s)

\* App::key_printer
key_printer(s, key) ==
    IF ~Ok(s) THEN s
    ELSE IF is_escape(key) THEN update_state(reset_test(s))
    ELSE IF is_ctrl_c(key) THEN exit(s)
    ELSE IF is_resize(key) THEN update_state(resize(s))
    ELSE IF is_backspace(key) THEN update_state(erase_key(s))
    ELSE IF is_ctrl_backspace(key) THEN update_state(erase_word(s))
    ELSE IF key = Chr(" ") /\ Len(s.current_word) < s.current_word_limit
    THEN LET s1 == [s EXCEPT !.total_chars_typed = @ + 1] IN
         update_state(noting_typo(s, IF s1.current_word # << >> THEN check_word(s1) ELSE s1))
    ELSE IF is_valid_initial_key(key)
    THEN LET s1 == appendkey(s, get_key_mapping(key)) IN
         update_state(noting_typo(s, [s1 EXCEPT !.total_chars_typed = @ + 1]))
    ELSE update_state(s)

\* Variant: the timer started by whatever key comes first
starts_timer_any(s, key) == ~s.first_key_pressed

\* typing_mode starts the timer on the first valid key
starts_timer(s, key) == ~s.first_key_pressed /\ is_valid_initial_key(key)

\* App::typing_mode
typing_mode(s, key) ==
    IF ~Ok(s) THEN s
    ELSE
    LET s1 == IF starts_timer(s, key)
              THEN [s EXCEPT !.start_time = s.now, !.first_key_pressed = TRUE]
              ELSE s
        s2 == IF is_resize(key) THEN resize(s1) ELSE s1
    IN IF ~Ok(s2) THEN s2
       ELSE IF ~s2.first_key_pressed THEN s2
       ELSE key_printer([s2 EXCEPT !.key_strokes = Append(@, [t |-> s2.now, key |-> key]),
                                   !.pressed = @ + 1],
                        key)

\* App::switch_text
switch_text(s, direction) ==
    IF ~Ok(s) THEN s
    ELSE IF ~parse_i32(s.text_id).ok
    THEN Fail(s, "error", "switch_text: ParsingError")
    ELSE
    LET text_id == parse_i32(s.text_id).n + direction
        s1 == [s EXCEPT !.text_id = to_string(text_id), !.switches = @ + 1]
        row == load_text_from_database(text_id)
    IN IF ~row.ok THEN Fail(s1, "error", "switch_text: OutOfRangeError")
       ELSE
       LET tokens == split_ascii_whitespace(row.text)
           w == word_wrap(join(tokens), s1.window_width)
       IN IF ~w.ok THEN Fail(s1, "panicked", LayoutFault)
          ELSE update_state(reset_test(
                 [s1 EXCEPT !.tokens = tokens,
                            !.text_backup = join(tokens),
                            !.text = w.text]))

\* App::share_result: opens the browser, no effect on the session
share_result(s) == s

\* The preamble of App::replay, up to its loop
replay_begin(s) ==
    IF ~Ok(s) THEN s
    ELSE [s EXCEPT !.replay_pos = IF s.key_strokes = << >> THEN 0 ELSE 1,
                   !.replay_keys = s.key_strokes,
                   !.next_tick = s.now,
                   !.replays = @ + 1]

\* Variant: the arrow keys switch the text whether or not a run is under way
run_switching_anytime(s, key) ==
    LET s1 == IF key = Chr(ESC) /\ ~s.first_key_pressed THEN exit(s)
              ELSE IF key.kind = "KeyLeft" THEN switch_text(s, -1)
              ELSE IF key.kind = "KeyRight" THEN switch_text(s, 1)
              ELSE s
    IN IF ~Ok(s1) THEN s1
       ELSE IF s1.mode = 0 THEN typing_mode(s1, key)
       ELSE LET s2 == IF is_tab(key) THEN update_state(reset_test(s1)) ELSE s1
                s3 == IF is_enter(key) THEN replay_begin(s2) ELSE s2
            IN IF is_ctrl_t(key) THEN share_result(s3) ELSE s3

\* One iteration of App::run's loop with the key getch returned
run(s, key) ==
    LET s1 == IF ~s.first_key_pressed
              THEN (IF key = Chr(ESC) THEN exit(s)
                    ELSE IF key.kind = "KeyLeft" THEN switch_text(s, -1)
                    ELSE IF key.kind = "KeyRight" THEN switch_text(s, 1)
                    ELSE s)
              ELSE s
    IN IF ~Ok(s1) THEN s1
       ELSE IF s1.mode = 0 THEN typing_mode(s1, key)
       ELSE LET s2 == IF is_tab(key) THEN update_state(reset_test(s1)) ELSE s1
                s3 == IF is_enter(key) THEN replay_begin(s2) ELSE s2
            IN IF is_ctrl_t(key) THEN share_result(s3) ELSE s3

----------------------------------------------------------------------------
(* The program: construction, the input loop of App::run, the loop of App::replay *)

\* Terminal sizes <<height, width>>: two that fit every text of the model, one
\* too low for any text, one too narrow to wrap a two-letter word
Screens == { <<20, 10>>, <<20, 3>>, <<11, 10>>, <<20, 1>> }

\* (text, id) pairs main hands to App::from_prepared_text
PreparedTexts ==
    { <<load_text_from_database(id).text, load_text_from_database(id).id>> : id \in {1, row_count} }
    \cup { <<FileText, FileId>> }

\* A text from a file, longer than the word limit it gives
EditText == <<"a", " ", "a", " ", "a", " ", "a">>
EditTexts == { <<EditText, FileId>> }

KeySet ==
    IF profile = "deep" THEN DeepKeys
    ELSE IF profile = "edit" THEN EditKeys
    ELSE IF profile = "replay" THEN (IF app.mode = 0 THEN ReplayRunKeys ELSE ReplayEndKeys)
    ELSE IF app.mode = 0 /\ app.first_key_pressed THEN MidRunKeys
    ELSE IF app.mode = 0 THEN FreshKeys
    ELSE AllKeys
KeyBound ==
    IF profile = "full" THEN MaxKeys
    ELSE IF profile = "replay" THEN MaxKeysReplay
    ELSE IF profile = "edit" THEN MaxKeysEdit
    ELSE MaxKeysDeep

\* The state App::run starts its loop in: from_prepared_text, then initialize_windows
Started(prepared, scr) ==
    initialize_windows(
        from_prepared_text(prepared[1], prepared[2], 0)
        @@ [hist |-> << >>, now |-> 0, screen |-> scr, status |-> "running",
            fault |-> "", replay_pos |-> 0, replay_keys |-> << >>, next_tick |-> 0,
            finishes |-> 0, replays |-> 0, switches |-> 0, pressed |-> 0,
            typo |-> FALSE, live |-> NoRun])

AppFields == DOMAIN from_prepared_text(<< >>, FileId, 0)

\* No library function is called on its own while the session runs
NoProbe == [op |-> "none"]

InitWith(p) ==
    /\ profile = p
    /\ \E prepared \in (IF p = "edit" THEN EditTexts ELSE PreparedTexts), scr \in Screens :
         LET s == Started(prepared, scr) IN
         /\ Ok(s)
         /\ app = [f \in AppFields |-> s[f]]
         /\ screen = scr
    /\ hist = << >>
    /\ now = 0
    /\ status = "running"
    /\ fault = ""
    /\ replay_pos = 0
    /\ replay_keys = << >>
    /\ next_tick = 0
    /\ finishes = 0
    /\ replays = 0
    /\ switches = 0
    /\ pressed = 0
    /\ typo = FALSE
    /\ live = NoRun
    /\ probe = NoProbe

Init == InitWith("full")
InitDeep == InitWith("deep")
InitReplay == InitWith("replay")
InitEdit == InitWith("edit")

\* The state after a handler: a handler that ended the program leaves the
\* session as it was when the handler was entered
Commit(s) ==
    /\ status' = s.status
    /\ fault' = s.fault
    /\ hist' = s.hist
    /\ IF Ok(s)
       THEN /\ app' = [f \in AppFields |-> s[f]]
            /\ replay_pos' = s.replay_pos
            /\ replay_keys' = s.replay_keys
            /\ next_tick' = s.next_tick
            /\ finishes' = s.finishes
            /\ replays' = s.replays
            /\ switches' = s.switches
            /\ pressed' = s.pressed
            /\ typo' = s.typo
            /\ live' = s.live
       ELSE UNCHANGED <<app, replay_pos, replay_keys, next_tick, finishes, replays,
                        switches, pressed, typo, live>>

\* What keeps the exploration finite
WithinBounds(key) ==
    /\ (app.mode = 0 /\ (app.first_key_pressed \/ is_valid_initial_key(key)))
          => pressed < KeyBound
    /\ (~app.first_key_pressed /\ key.kind \in {"KeyLeft", "KeyRight"})
          => switches < MaxSwitches
    /\ (app.mode = 1 /\ is_tab(key)) => NumRecords(hist) <= MaxRuns
    /\ (app.mode = 1 /\ is_enter(key)) => replays < MaxReplays

\* getch returned key; a KeyResize comes with the new terminal size scr
Press(key, scr) ==
    /\ status = "running"
    /\ replay_pos = 0
    /\ key \in KeySet
    /\ is_resize(key) \/ scr = screen
    /\ WithinBounds(key)
    /\ screen' = scr
    /\ Commit(run(World(scr), key))
    /\ UNCHANGED <<now, profile, probe>>

\* App::run, a key in test mode
TypingKey ==
    \E key \in AllKeys, scr \in Screens : app.mode = 0 /\ Press(key, scr)

\* App::run, a key after the test
FinishedKey ==
    \E key \in AllKeys, scr \in Screens : app.mode = 1 /\ Press(key, scr)

\* App::run, getch timed out: nothing but time passes
Idle ==
    /\ status = "running"
    /\ replay_pos = 0
    /\ now < MaxTime
    /\ now' = now + 1
    /\ UNCHANGED <<app, hist, screen, status, fault, replay_pos, replay_keys,
                   next_tick, finishes, replays, switches, pressed, typo, live, profile,
                   probe>>

\* What getch may return inside App::replay
LiveInputs == { NoKey, Chr("a"), Chr(CTRL_C), Key("KeyExit"), Key("KeyLeft") }

\* One iteration of the loop of App::replay
ReplayStep ==
    \E input \in LiveInputs :
      /\ status = "running"
      /\ replay_pos > 0
      /\ LET e == replay_keys[replay_pos]
             tick == next_tick + e.t
             t == Max(now, tick)
             w == [World(screen) EXCEPT
                     !.now = t,
                     !.next_tick = tick,
                     !.replay_pos = IF replay_pos = Len(replay_keys) THEN 0
                                    ELSE replay_pos + 1]
         IN /\ now' = t
            /\ Commit(IF is_escape(input) \/ is_ctrl_c(input) THEN exit(w)
                      ELSE key_printer(w, e.key))
      /\ UNCHANGED <<screen, profile, probe>>

Next == TypingKey \/ FinishedKey \/ Idle \/ ReplayStep

Spec == Init /\ [][Next]_vars

NextDeep == TypingKey \/ Idle

SpecDeep == InitDeep /\ [][NextDeep]_vars

SpecReplay == InitReplay /\ [][Next]_vars

SpecEdit == InitEdit /\ [][TypingKey]_vars

----------------------------------------------------------------------------
(* Library functions called on their own *)

\* The session left aside while a library function is examined
Parked ==
    /\ profile = "probe"
    /\ app = from_prepared_text(FileText, FileId, 0)
    /\ screen = <<20, 10>>
    /\ hist = << >>
    /\ now = 0
    /\ status = "running"
    /\ fault = ""
    /\ replay_pos = 0
    /\ replay_keys = << >>
    /\ next_tick = 0
    /\ finishes = 0
    /\ replays = 0
    /\ switches = 0
    /\ pressed = 0
    /\ typo = FALSE
    /\ live = NoRun

\* Texts as from_prepared_text joins them: words of one or two letters, single spaces
WrapWords == { <<"a">>, <<"a", "a">> }
WrapTexts == { join(ws) : ws \in UNION { [1..n -> WrapWords] : n \in 1..MaxWords } }
WrapWidths == { 2, 3, 4 }

InitWrap ==
    /\ Parked
    /\ \E text \in WrapTexts, width \in WrapWidths :
         probe = [op |-> "word_wrap", text |-> text, width |-> width,
                  done |-> FALSE, out |-> [ok |-> FALSE, text |-> << >>]]

\* calculations::word_wrap(text, width)
CallWordWrap ==
    /\ probe.op = "word_wrap"
    /\ ~probe.done
    /\ probe' = [probe EXCEPT !.done = TRUE, !.out = word_wrap(probe.text, probe.width)]
    /\ UNCHANGED <<app, hist, now, screen, status, fault, replay_pos, replay_keys,
                   next_tick, finishes, replays, switches, pressed, typo, live, profile>>

SpecWrap == InitWrap /\ [][CallWordWrap]_vars

\* Strings of up to MaxChars characters, one of them not ASCII
DifferChars == { "a", "b", E_ACUTE }
DifferStrings == UNION { [1..n -> DifferChars] : n \in 0..MaxChars }

InitDiffer ==
    /\ Parked
    /\ \E string1 \in DifferStrings, string2 \in DifferStrings :
         probe = [op |-> "first_index", string1 |-> string1, string2 |-> string2,
                  done |-> FALSE, out |-> 0]

\* calculations::first_index_at_which_strings_differ(string1, string2)
CallFirstIndex ==
    /\ probe.op = "first_index"
    /\ ~probe.done
    /\ probe' = [probe EXCEPT
                   !.done = TRUE,
                   !.out = first_index_at_which_strings_differ(probe.string1, probe.string2)]
    /\ UNCHANGED <<app, hist, now, screen, status, fault, replay_pos, replay_keys,
                   next_tick, finishes, replays, switches, pressed, typo, live, profile>>

SpecDiffer == InitDiffer /\ [][CallFirstIndex]_vars

\* The two difficulty loaders, called on their own: with a given difficulty,
\* or with the difficulty the random loader draws
Difficulties == 0..MaxDifficulty

InitDifficulty ==
    /\ Parked
    /\ \E random \in BOOLEAN, difficulty \in Difficulties :
         /\ random => difficulty = 0
         /\ probe = [op |-> "difficulty", random |-> random, difficulty |-> difficulty,
                     done |-> FALSE,
                     out |-> [ok |-> FALSE, text |-> << >>, id |-> to_string(0),
                              err |-> NoError, fetched |-> << >>]]

\* database::load_text_from_database_based_on_difficulty(difficulty, path)
CallBasedOnDifficulty ==
    /\ probe.op = "difficulty"
    /\ ~probe.done
    /\ ~probe.random
    /\ \E out \in load_text_from_database_based_on_difficulty(probe.difficulty) :
         probe' = [probe EXCEPT !.done = TRUE, !.out = out]
    /\ UNCHANGED <<app, hist, now, screen, status, fault, replay_pos, replay_keys,
                   next_tick, finishes, replays, switches, pressed, typo, live, profile>>

\* database::load_text_from_database_with_random_difficulty(path)
CallRandomDifficulty ==
    /\ probe.op = "difficulty"
    /\ ~probe.done
    /\ probe.random
    /\ \E random \in gen_range(1, 6) :
         \E out \in load_text_from_database_based_on_difficulty(random) :
            probe' = [probe EXCEPT !.done = TRUE, !.difficulty = random, !.out = out]
    /\ UNCHANGED <<app, hist, now, screen, status, fault, replay_pos, replay_keys,
                   next_tick, finishes, replays, switches, pressed, typo, live, profile>>

SpecDifficulty == InitDifficulty /\ [][CallBasedOnDifficulty \/ CallRandomDifficulty]_vars

\* save_history called on its own, starting from a missing history file;
\* probe.calls is the list of the calls made so far
SaveIds == { to_string(1), FileId }
SaveSpeeds == { Zero, Ratio(1, 3) }
SaveAccuracies == { Hundred, Ratio(200, 3) }

InitHistory ==
    /\ Parked
    /\ probe = [op |-> "save_history", calls |-> << >>]

\* history::save_history(text_id, current_speed_wpm, accuracy)
CallSaveHistory ==
    /\ probe.op = "save_history"
    /\ Len(probe.calls) < MaxSaves
    /\ \E text_id \in SaveIds, current_speed_wpm \in SaveSpeeds, accuracy \in SaveAccuracies :
         /\ hist' = save_history(World(screen), text_id, current_speed_wpm, accuracy).hist
         /\ probe' = [probe EXCEPT !.calls = Append(@,
                         [text_id |-> text_id, current_speed_wpm |-> current_speed_wpm,
                          accuracy |-> accuracy, at |-> now])]
    /\ UNCHANGED <<app, now, screen, status, fault, replay_pos, replay_keys,
                   next_tick, finishes, replays, switches, pressed, typo, live, profile>>

SpecHistory == InitHistory /\ [][CallSaveHistory]_vars

----------------------------------------------------------------------------
(* Vocabulary of the claims *)

Typing == app.mode = 0
Finished == app.mode = 1
Running == status = "running"

\* The input events of the current run, in order
LogKeys == [i \in 1..Len(app.key_strokes) |-> app.key_strokes[i].key]

\* The exact keystrokes for the reference text: its tokens with single spaces
RawKeys == [i \in 1..Len(app.text_backup) |-> Chr(app.text_backup[i])]

IsPrefix(p, q) == Len(p) <= Len(q) /\ p = SubSeq(q, 1, Len(p))

\* The run so far is the exact text, or an exact beginning of it
ExactRun == LogKeys = RawKeys
ExactSoFar == IsPrefix(LogKeys, RawKeys) /\ LogKeys # RawKeys

\* A fresh Typing state, as reset_test leaves it
Fresh(s) ==
    /\ s.mode = 0
    /\ s.current_word = << >>
    /\ s.current_string = << >>
    /\ s.token_index = 0
    /\ s.key_strokes = << >>
    /\ s.mistyped_keys = << >>
    /\ s.total_chars_typed = 0
    /\ ~s.first_key_pressed
    /\ s.current_speed_wpm = Zero
    /\ s.accuracy = Zero
    /\ s.time_taken = Zero
    /\ ~s.test_complete

SameText(s) ==
    /\ s.text = app.text
    /\ s.text_backup = app.text_backup
    /\ s.tokens = app.tokens
    /\ s.text_id = app.text_id

Metrics(a) == <<a.current_speed_wpm, a.accuracy, a.time_taken>>

----------------------------------------------------------------------------
(* Claims *)

\* C1: for a non-empty reference text, a run that consists of exactly the
\* text's characters (tokens separated by single space keys) is Finished, by
\* exactly one Typing-to-Finished transition, and no exact beginning of the
\* text short of its last character has left Typing.
C1_ExactRunFinishesOnce ==
    app.tokens # << >> =>
        /\ ExactRun => Finished /\ finishes = 1
        /\ ExactSoFar => Typing /\ finishes = 0

\* C1 witness: an exact run of a text of several tokens that the window wraps
\* with padding has finished.
C1_Witness ==
    /\ Running /\ ExactRun /\ Finished
    /\ Len(app.tokens) >= 2
    /\ Len(app.text) > Len(app.text_backup)

\* C2: the history file grows by exactly one record in a step that takes the
\* session from Typing to Finished, and in no other step (no state update in
\* Finished mode, no replay step).
C2_OneRecordPerCompletedRun ==
    [][ /\ NumRecords(hist') \in {NumRecords(hist), NumRecords(hist) + 1}
        /\ (NumRecords(hist') = NumRecords(hist) + 1) <=> (finishes' = finishes + 1)
        /\ (NumRecords(hist') = NumRecords(hist) + 1) => (Typing /\ app'.mode = 1)
        /\ finishes' \in {0, 1} ]_vars

\* C2 witness: a second run was completed after a Retry of a replayed or
\* unreplayed first one, and each left one record.
C2_Witness ==
    /\ Running /\ Finished /\ NumRecords(hist) = 2 /\ switches = 0 /\ finishes = 1

\* C3: once a completed run has been replayed to the end, current_string,
\* mistyped_keys and the three statistics are what the live run left at its
\* Finished transition.
C3_ReplayReproducesLiveRun ==
    (Running /\ Finished /\ replays >= 1 /\ replay_pos = 0) => Results(app) = live

\* C4: a run made of exactly the text's keystrokes ends with accuracy 100 and
\* no mistyped position.
C4_ExactRunIsPerfect ==
    (app.tokens # << >> /\ ExactRun /\ Finished /\ replays = 0) =>
        /\ app.accuracy = Hundred
        /\ app.mistyped_keys = << >>

\* C4 witness: an exact run of a text of two tokens has just finished.
C4_Witness ==
    /\ Running /\ ExactRun /\ Finished /\ replays = 0
    /\ Len(app.tokens) = 2
    /\ app.total_chars_typed = Len(app.text_backup)

\* C5: once a character was typed that differs from the reference at its
\* position, mistyped_keys is not empty, and a run that finishes after it has
\* an accuracy below 100.
C5_TypoLowersAccuracy ==
    typo =>
        /\ app.mistyped_keys # << >>
        /\ Finished => RatLess(app.accuracy, Hundred)

\* C6: no keystroke received in Typing mode once a run is under way ends the
\* program with a panic or an error result (the fatal layout error of a window
\* resized too narrow for a word apart).
C6_KeystrokeNeverFails ==
    (Typing /\ app.first_key_pressed /\ fault # LayoutFault)
        => status \notin {"panicked", "error"}

\* C7: the statistics change only in the step that takes the session from
\* Typing to Finished and in a step that resets them to zero in Typing mode;
\* every step that stays in Finished mode leaves them alone.
C7_MetricsCachedInFinished ==
    [][ /\ (Finished /\ app'.mode = 1) => Metrics(app') = Metrics(app)
        /\ Metrics(app') # Metrics(app) =>
              \/ Typing /\ app'.mode = 1 /\ finishes' = finishes + 1
              \/ app'.mode = 0 /\ Metrics(app') = <<Zero, Zero, Zero>> ]_vars

\* C7 witness: a replay has run to its end, later than the run finished, and
\* the session still shows the statistics of the live run.
C7_Witness ==
    /\ Running /\ Finished /\ replays = 1 /\ replay_pos = 0
    /\ now > app.key_strokes[Len(app.key_strokes)].t
    /\ app.current_speed_wpm # Zero
    /\ Metrics(app) = <<live.current_speed_wpm, live.accuracy, live.time_taken>>

\* A key that is an alphabetic character
is_alphabetic(key) == key.kind = "Character" /\ key.c \in {"a"}

\* What one key leaves of a run that has not started
NotStartedBy(key, scr) ==
    LET s == run(World(scr), key) IN
    Ok(s) => /\ ~s.first_key_pressed
             /\ s.key_strokes = << >>
             /\ s.switches = switches => s.start_time = app.start_time

\* C8 as stated: before a run has started, every key that is not an
\* alphabetic character leaves first_key_pressed false, start_time as it was
\* and key_strokes empty.
C8_OnlyAlphabeticStartsTimer ==
    (Running /\ Typing /\ ~app.first_key_pressed /\ replay_pos = 0) =>
        \A key \in AllKeys : ~is_alphabetic(key) => NotStartedBy(key, screen)

\* C8 amended: before a run has started, every key that is not a Character
\* leaves first_key_pressed false, start_time as it was (a text switch apart)
\* and key_strokes empty; nothing is logged before the timer has started, and
\* the log of a run in progress begins with the Character key that started
\* the timer, at the time start_time holds.
C8_OnlyCharacterStartsTimer ==
    /\ (Running /\ Typing /\ ~app.first_key_pressed /\ replay_pos = 0) =>
          /\ app.key_strokes = << >>
          /\ \A key \in AllKeys, scr \in Screens :
                (~is_valid_initial_key(key) /\ (is_resize(key) \/ scr = screen))
                    => NotStartedBy(key, scr)
    /\ (Typing /\ app.first_key_pressed) =>
          /\ app.key_strokes # << >>
          /\ is_valid_initial_key(app.key_strokes[1].key)
          /\ app.start_time <= app.key_strokes[1].t

\* C8 witness: a space, a digit or a control character has started a run.
C8_Witness ==
    /\ Running /\ Typing /\ app.first_key_pressed
    /\ app.key_strokes[1].key \in {Chr(" "), Chr("1"), Chr(TAB)}
    /\ app.start_time = app.key_strokes[1].t
    /\ app.start_time > 0

\* C9: in Finished mode a Tab leaves the program running, in a fresh Typing
\* state for the same reference text; the only other keys that leave Finished
\* mode for Typing are the arrow keys (a text switch), and they leave a fresh
\* state too; no step of a replay leaves Finished mode.
C9_RetryIsFresh ==
    /\ (Running /\ Finished /\ replay_pos = 0) =>
          \A key \in AllKeys, scr \in Screens :
             (is_resize(key) \/ scr = screen) =>
                LET s == run(World(scr), key) IN
                /\ is_tab(key) =>
                      Ok(s) /\ Fresh(s) /\ SameText(s) /\ s.live = NoRun /\ s.hist = hist
                /\ (Ok(s) /\ s.mode = 0) =>
                      /\ is_tab(key) \/ key.kind \in {"KeyLeft", "KeyRight"}
                      /\ Fresh(s)
    /\ (Running /\ replay_pos > 0) => Finished

ReplayWorld ==
    [World(screen) EXCEPT
        !.now = Max(now, next_tick + replay_keys[replay_pos].t),
        !.next_tick = next_tick + replay_keys[replay_pos].t,
        !.replay_pos = IF replay_pos = Len(replay_keys) THEN 0 ELSE replay_pos + 1]

\* C11: while a replay runs the session is in Finished mode and the log is the
\* one the replay was started with; each iteration of the replay feeds the next
\* entry of the log, in order, through key_printer, whatever key is read
\* meanwhile, and leaves the log and the mode alone; the replay stops before
\* the end of the log only by terminating the program, on a live Escape or
\* interrupt (or on the fatal layout error of a logged resize).
C11_ReplayFeedsTheLog ==
    [][ (status = "running" /\ replay_pos > 0) =>
          LET fed == key_printer(ReplayWorld, replay_keys[replay_pos].key) IN
          /\ app.mode = 1
          /\ replay_keys = app.key_strokes
          /\ \/ /\ status' = "running"
                /\ Ok(fed)
                /\ app' = [f \in AppFields |-> fed[f]]
                /\ app'.mode = 1
                /\ app'.key_strokes = app.key_strokes
                /\ replay_keys' = replay_keys
                /\ replay_pos' = IF replay_pos = Len(replay_keys) THEN 0 ELSE replay_pos + 1
             \/ /\ status' = "exited"
                /\ app' = app
             \/ /\ status' = "panicked"
                /\ is_resize(replay_keys[replay_pos].key) /\ fed.fault = LayoutFault ]_vars

\* The call of word_wrap has returned a wrapped string
Wrapped == probe.op = "word_wrap" /\ probe.done /\ probe.out.ok

\* Every line boundary inside str has a space in its last column
Aligned(str, width) ==
    \A k \in 1..Len(str) : k * width < Len(str) => str[k * width] = " "

\* C12: when every word of the text is shorter than the width, the string
\* word_wrap returns has a space in the last column of every line but the
\* last: at index k*width - 1 for every k >= 1 with k*width < len(result).
C12_NoWordAcrossLines ==
    (Wrapped /\ max_len(split_ascii_whitespace(probe.text)) < probe.width)
        => Aligned(probe.out.text, probe.width)

\* C13: wrapping a wrapped string again, at the same width, returns it as it is.
C13_WrapIdempotent ==
    Wrapped => word_wrap(probe.out.text, probe.width) = probe.out

\* At iteration line of word_wrap's loop over str the last column of the line
\* holds no space and neither does the rest of that line
WordFillsLine(str, width, line) ==
    /\ line * width < Len(str)
    /\ \A i \in ((line - 1) * width + 1)..(line * width) : str[i] # " "

\* C14: word_wrap returns no string when, at some iteration of its loop, the
\* line it looks at ends in a character that is not a space and holds no space.
C14_WideWordFails ==
    (probe.op = "word_wrap" /\ probe.done) =>
        \A line \in 1..(number_of_lines_to_fit_text_in_window(probe.text, probe.width) + 1) :
            LET before == word_wrap_loop(probe.text, probe.width, 1, line - 1) IN
            (before.ok /\ WordFillsLine(before.text, probe.width, line)) => ~probe.out.ok

\* The positions, counted in characters from 0, at which two strings differ
\* inside their common length
Mismatches(string1, string2) ==
    { i \in 0..(Min(Len(string1), Len(string2)) - 1) : string1[i + 1] # string2[i + 1] }

\* The least element of a non-empty set of numbers
Least(S) == CHOOSE i \in S : \A j \in S : i <= j

\* C15: the diff returns the least index below min(len(typed), len(reference))
\* at which the two strings differ, and that minimum when they agree on their
\* whole common prefix (indices and lengths counted in characters); so the
\* diff of a string with itself is its length.
C15_FirstMismatch ==
    (probe.op = "first_index" /\ probe.done) =>
        probe.out = IF Mismatches(probe.string1, probe.string2) = {}
                    THEN Min(Len(probe.string1), Len(probe.string2))
                    ELSE Least(Mismatches(probe.string1, probe.string2))

\* A difficulty loader has returned
Loaded == probe.op = "difficulty" /\ probe.done

\* C16: for every difficulty d in 1..5 the difficulty loader returns a text id
\* inside the band [(d-1)*1200 + 1, d*1200] together with the text stored
\* under that id; for every d outside 1..5 it returns
\* DifficultyOutOfRangeError(d) without reading the corpus; the
\* random-difficulty loader only ever passes a d in 1..5.
C16_DifficultyBands ==
    Loaded =>
        LET d == probe.difficulty
            out == probe.out
        IN  /\ d \in 1..5 =>
                  /\ out.ok
                  /\ out.id.decimal
                  /\ out.id.n \in ((d - 1) * 1200 + 1)..(d * 1200)
                  /\ out.text = DbText(out.id.n)
                  /\ out.fetched = <<out.id.n>>
            /\ d \notin 1..5 =>
                  /\ ~out.ok
                  /\ out.err = [name |-> "DifficultyOutOfRangeError", n |-> d]
                  /\ out.fetched = << >>
            /\ probe.random => d \in 1..5

\* The loader called with difficulty 5 drew the last id of the corpus
C16_Witness ==
    /\ Loaded /\ ~probe.random
    /\ probe.difficulty = 5 /\ probe.out.ok /\ probe.out.id.n = row_count
    /\ probe.out.text = <<"a", " ", " ", "a", "a", "\n">>

\* The offset a text-switch key asks for
direction_of(key) == IF key.kind = "KeyLeft" THEN -1 ELSE 1

\* The key asks for a text switch whose target id is outside [1, row_count]
SwitchOutOfRange(key) ==
    /\ status = "running"
    /\ ~app.first_key_pressed
    /\ key.kind \in {"KeyLeft", "KeyRight"}
    /\ parse_i32(app.text_id).ok
    /\ parse_i32(app.text_id).n + direction_of(key) \notin 1..row_count

\* C17: a text switch by offset +1 or -1 whose target id falls outside
\* [1, 6000] fails with the id-out-of-range error and leaves the session's
\* reference text, tokens and text_id as they were before the switch.
C17_FailedSwitchKeepsText ==
    \A key \in {Key("KeyLeft"), Key("KeyRight")} :
        SwitchOutOfRange(key) =>
            LET s == run(World(screen), key) IN
            /\ s.fault = "switch_text: OutOfRangeError"
            /\ s.text = app.text
            /\ s.tokens = app.tokens
            /\ s.text_id = app.text_id

\* The row save_history writes for a call
RecordOf(call) ==
    <<call.text_id, Format2(call.current_speed_wpm), call.at, call.at, Format2(call.accuracy)>>

\* C18: after any sequence of n >= 1 save_history calls starting from a
\* missing history file, the file holds exactly one header row followed by
\* exactly n records in call order; every earlier record is still in its
\* place, unchanged.
C18_HeaderThenRecordsInOrder ==
    (probe.op = "save_history" /\ Len(probe.calls) >= 1) =>
        /\ Len(hist) = 1 + Len(probe.calls)
        /\ hist[1] = HistoryHeader
        /\ \A i \in 1..Len(probe.calls) : hist[i + 1] = RecordOf(probe.calls[i])

\* Two different calls have been made and the file holds three rows
C18_Witness ==
    /\ probe.op = "save_history"
    /\ Len(probe.calls) = 2
    /\ probe.calls[1] # probe.calls[2]
    /\ Len(hist) = 3

\* The 0-based indices at which a token of the wrapped text starts
TokenStarts(text) ==
    { i \in 0..(Len(text) - 1) : text[i + 1] # " " /\ (i = 0 \/ text[i] = " ") }

\* The prefix of the wrapped text that ends just before the first character
\* of token number k (counted from 0); the whole text when there is no such token
PrefixBeforeToken(text, k) ==
    IF k >= Cardinality(TokenStarts(text)) THEN text
    ELSE LET start == CHOOSE i \in TokenStarts(text) :
                          Cardinality({ j \in TokenStarts(text) : j < i }) = k
         IN SubSeq(text, 1, start)

\* A started run whose current word is non-empty, so that a space hands it to check_word
WordTyped ==
    /\ status = "running"
    /\ app.mode = 0
    /\ app.first_key_pressed
    /\ app.current_word # << >>
    /\ Len(app.current_word) < app.current_word_limit

\* The current word is the token the run is at
ExactWordTyped ==
    /\ WordTyped
    /\ app.token_index < Len(app.tokens)
    /\ app.current_word = app.tokens[app.token_index + 1]

\* C19: when space is pressed with current_word equal to
\* tokens[token_index], token_index increases by 1, current_word becomes
\* empty and current_string is extended by the spaces that separate this
\* token from the next in the wrapped text, so that current_string is then the
\* prefix of the wrapped text that ends just before the next token.
C19_ExactMatchAdvances ==
    ExactWordTyped =>
        LET s == check_word(World(screen)) IN
        /\ Ok(s)
        /\ s.token_index = app.token_index + 1
        /\ s.current_word = << >>
        /\ \E n \in 0..Len(app.text) : s.current_string = app.current_string \o Spaces(n)
        /\ s.current_string = PrefixBeforeToken(app.text, s.token_index)

\* The current word is not the token the run is at
WrongWordTyped ==
    /\ WordTyped
    /\ app.token_index < Len(app.tokens)
    /\ app.current_word # app.tokens[app.token_index + 1]

\* The session's current word is the token at token_index
AtExactWord ==
    /\ app.current_word # << >>
    /\ app.token_index < Len(app.tokens)
    /\ app.current_word = app.tokens[app.token_index + 1]

\* C20: when space is pressed with a non-empty current_word that differs
\* from tokens[token_index], exactly one space is appended to current_word and
\* to current_string and token_index is left unchanged; and token_index only
\* ever changes by +1, on a space pressed at an exact match, or by a reset to 0.
C20_MismatchKeepsToken ==
    [][ /\ WrongWordTyped =>
              LET s == check_word(World(screen)) IN
              /\ Ok(s)
              /\ s.current_word = app.current_word \o <<" ">>
              /\ s.current_string = app.current_string \o <<" ">>
              /\ s.token_index = app.token_index
              /\ \A f \in AppFields \ {"current_word", "current_string"} : s[f] = app[f]
        /\ \/ app'.token_index = app.token_index
           \/ app'.token_index = 0
           \/ /\ app'.token_index = app.token_index + 1
              /\ AtExactWord
              /\ IF replay_pos > 0
                 THEN replay_keys[replay_pos].key = Chr(" ")
                 ELSE /\ Len(app'.key_strokes) = Len(app.key_strokes) + 1
                      /\ app'.key_strokes[Len(app'.key_strokes)].key = Chr(" ") ]_vars

\* A wrong word was submitted at the second token: the run is still at that token
C20_Witness ==
    /\ status = "running"
    /\ app.mode = 0
    /\ app.token_index = 1
    /\ app.current_word = <<"1", " ">>
    /\ app.current_string = <<"a", " ", "1", " ">>

\* The number of space keys in the log of the current run
SpacesLogged == Cardinality({ i \in 1..Len(LogKeys) : LogKeys[i] = Chr(" ") })

\* C21 as stated: when an exact run (the tokens of the reference text with
\* single spaces) has reached Finished, token_index equals the number of tokens.
C21_ExactRunCountsAllTokens ==
    (app.tokens # << >> /\ ExactRun /\ Finished /\ replays = 0) =>
        app.token_index = Len(app.tokens)

\* C21 amended: during an exact run token_index is the number of words
\* submitted by a space, which stays below the number of tokens (the last
\* token is never submitted: its last character ends the run), and when the
\* run has reached Finished token_index is 0 again.
C21_ExactRunResetsTokenIndex ==
    (app.tokens # << >> /\ replays = 0) =>
        /\ ExactSoFar => /\ app.token_index = SpacesLogged
                         /\ app.token_index < Len(app.tokens)
        /\ ExactRun => Finished /\ app.token_index = 0

\* An exact run of a text of two tokens has finished: token_index is back at 0
C21_Witness ==
    /\ Running /\ ExactRun /\ Finished /\ replays = 0 /\ finishes = 1
    /\ Len(app.tokens) = 2
    /\ SpacesLogged = 1
    /\ app.token_index = 0

\* C22: in every reachable state, including after a text switch, the word
\* limit is the length of the longest token of the current reference text
\* plus 5, and current_word is no longer than the word limit.
C22_WordLimitFollowsText ==
    Running =>
        /\ app.current_word_limit = max_len(app.tokens) + 5
        /\ Len(app.current_word) <= app.current_word_limit

\* A started run whose current word has reached the word limit
AtLimit ==
    /\ Running
    /\ Typing
    /\ app.first_key_pressed
    /\ Len(app.current_word) >= app.current_word_limit

\* C23: a printable character or a space received while current_word has
\* reached the word limit is dropped: it is appended to neither buffer and
\* total_chars_typed is not incremented.
C23_KeyAtLimitDropped ==
    \A key \in { Chr("a"), Chr("1"), Chr(" ") } :
        AtLimit =>
            LET s == run(World(screen), key) IN
            /\ Ok(s)
            /\ s.current_word = app.current_word
            /\ s.current_string = app.current_string
            /\ s.total_chars_typed = app.total_chars_typed

\* A started run with a non-empty current word
WordInProgress ==
    /\ Running
    /\ Typing
    /\ app.first_key_pressed
    /\ app.current_word # << >>

\* The length of what word-erase is to remove: from the last space of the
\* word to its end, the whole word when it holds no space
ErasedLength(word) ==
    IF \E i \in 1..Len(word) : word[i] = " "
    THEN Len(word) - (CHOOSE i \in 1..Len(word) :
                         word[i] = " " /\ \A j \in (i + 1)..Len(word) : word[j] # " ") + 1
    ELSE Len(word)

\* C24: word-erase on a non-empty current_word succeeds and removes, from
\* current_word and from current_string alike, the part from the word's last
\* space to its end, or the whole word when it contains no space.
C24_EraseWordToBoundary ==
    WordInProgress =>
        LET s == erase_word(World(screen))
            n == ErasedLength(app.current_word)
        IN  /\ Ok(s)
            /\ s.current_word = SubSeq(app.current_word, 1, Len(app.current_word) - n)
            /\ s.current_string = SubSeq(app.current_string, 1, Len(app.current_string) - n)

\* The keys is_backspace recognises
BackspaceKeys == { key \in AllKeys : is_backspace(key) }

\* All but the last element of a sequence
Front(seq) == SubSeq(seq, 1, Len(seq) - 1)

\* C25: in Typing mode Backspace removes the last character from both
\* current_word and current_string when current_word is non-empty, and
\* changes neither buffer, token_index nor total_chars_typed when
\* current_word is empty.
C25_BackspaceRemovesOne ==
    \A key \in BackspaceKeys :
        (Running /\ Typing) =>
            LET s == run(World(screen), key) IN
            /\ Ok(s)
            /\ s.token_index = app.token_index
            /\ s.total_chars_typed = app.total_chars_typed
            /\ IF app.current_word # << >>
               THEN /\ s.current_word = Front(app.current_word)
                    /\ s.current_string = Front(app.current_string)
               ELSE /\ s.current_word = app.current_word
                    /\ s.current_string = app.current_string

\* A typed character was taken back by Backspace
C25_Witness ==
    /\ Running /\ Typing
    /\ Len(app.key_strokes) = 5
    /\ is_backspace(app.key_strokes[5].key)
    /\ app.current_word = <<"a">>
    /\ app.current_string = <<"a", " ", "a">>
    /\ app.total_chars_typed = 4

\* C26: a space typed in Typing mode while current_word is empty leaves
\* current_word, current_string and token_index unchanged and increments
\* total_chars_typed by exactly 1.
C26_LeadingSpaceOnlyCounted ==
    (Running /\ Typing /\ app.current_word = << >>) =>
        LET s == run(World(screen), Chr(" ")) IN
        /\ Ok(s)
        /\ s.current_word = app.current_word
        /\ s.current_string = app.current_string
        /\ s.token_index = app.token_index
        /\ s.total_chars_typed = app.total_chars_typed + 1

\* A second space after an accepted word was counted and changed no buffer
C26_Witness ==
    /\ Running /\ Typing
    /\ Len(app.key_strokes) = 3
    /\ app.key_strokes[2].key = Chr(" ")
    /\ app.key_strokes[3].key = Chr(" ")
    /\ app.current_word = << >>
    /\ app.current_string = <<"a", " ">>
    /\ app.token_index = 1
    /\ app.total_chars_typed = 3

\* The keys no branch of key_printer recognises
UnrecognizedKeys ==
    { key \in AllKeys :
        /\ ~is_escape(key) /\ ~is_ctrl_c(key) /\ ~is_resize(key)
        /\ ~is_backspace(key) /\ ~is_ctrl_backspace(key)
        /\ ~is_valid_initial_key(key) }

\* C27: an unrecognized key (an arrow key, for example) received in Typing
\* mode after the run has started is ignored: current_word, current_string,
\* token_index, total_chars_typed and the recorded mistyped positions are the
\* same after it as before.
C27_UnrecognizedKeyIgnored ==
    \A key \in UnrecognizedKeys :
        (Running /\ Typing /\ app.first_key_pressed) =>
            LET s == run(World(screen), key) IN
            /\ Ok(s)
            /\ s.current_word = app.current_word
            /\ s.current_string = app.current_string
            /\ s.token_index = app.token_index
            /\ s.total_chars_typed = app.total_chars_typed
            /\ s.mistyped_keys = app.mistyped_keys

\* C28: the recorded mistyped positions are a set: within one run, whatever
\* keystrokes, erasures and resizes occur, no position is recorded twice.
C28_NoPositionRecordedTwice ==
    (Running /\ replays = 0) =>
        \A i, j \in 1..Len(app.mistyped_keys) :
            i # j => app.mistyped_keys[i] # app.mistyped_keys[j]

\* The absolute timestamp of entry i of the log of the run that finishes in
\* this step: the entries logged before the step, then the key of the step
Stamp(i) == IF i <= Len(app.key_strokes) THEN app.key_strokes[i].t ELSE now

\* C29: at the Finished transition the key log is delta-encoded from the
\* absolute timestamps t: entry 0 becomes 0 and entry i > 0 becomes
\* t[i] - t[i-1], the events and their order unchanged; the encoding is
\* applied once per run: no step taken in Finished mode, a replay step
\* included, changes the timestamps of the log.
C29_LogDeltaEncodedOnce ==
    [][ /\ (Typing /\ app'.mode = 1) =>
              LET after == app'.key_strokes
                  n == Len(after)
              IN  /\ n = Len(app.key_strokes) + 1
                  /\ \A i \in 1..Len(app.key_strokes) : after[i].key = app.key_strokes[i].key
                  /\ after[1].t = 0
                  /\ \A i \in 2..n : after[i].t = Stamp(i) - Stamp(i - 1)
        /\ (Finished /\ app'.mode = 1) => app'.key_strokes = app.key_strokes ]_vars

\* A run of two keys, the second a tick after the first, has finished and has
\* been replayed to its end: the log still holds the deltas 0 and 1
C29_Witness ==
    /\ Running /\ Finished /\ replays = 1 /\ replay_pos = 0
    /\ Len(app.key_strokes) = 2
    /\ app.key_strokes[1].t = 0
    /\ app.key_strokes[2].t = 1

\* The session's text is the wrap, at the session's window width, of its raw
\* text, and the raw text is the single-spaced join of the tokens
WrappedFromRaw(a) ==
    /\ a.text_backup = join(a.tokens)
    /\ word_wrap(a.text_backup, a.window_width).ok
    /\ a.text = word_wrap(a.text_backup, a.window_width).text

C31_TypedTextAlignedWithWrap ==
    (Running /\ Typing) =>
        app.current_string = PrefixBeforeToken(app.text, app.token_index) \o app.current_word

\* The keys that erase: Backspace and word-erase
EraseKeys == { key \in AllKeys : is_backspace(key) \/ is_ctrl_backspace(key) }

IsSuffix(p, q) == Len(p) <= Len(q) /\ p = SubSeq(q, Len(q) - Len(p) + 1, Len(q))

\* The length of the part of current_string that belongs to the accepted
\* words and their separators
AcceptedLength(a) == Len(a.current_string) - Len(a.current_word)

\* C32: in every reachable state current_word is a suffix of
\* current_string, and no Backspace or word-erase, typed in a run or fed by a
\* replay, decreases len(current_string) - len(current_word).
C32_AcceptedWordsStay ==
    Running =>
        /\ IsSuffix(app.current_word, app.current_string)
        /\ \A key \in EraseKeys :
              /\ (Typing /\ replay_pos = 0) =>
                    LET s == run(World(screen), key) IN
                    Ok(s) => AcceptedLength(s) >= AcceptedLength(app)
              /\ (replay_pos > 0 /\ replay_keys[replay_pos].key = key) =>
                    LET s == key_printer(ReplayWorld, key) IN
                    Ok(s) => AcceptedLength(s) >= AcceptedLength(app)

\* A Backspace pressed right after an accepted word has left the word and its
\* separator in current_string
C32_Witness ==
    /\ Running /\ Typing
    /\ Len(app.key_strokes) = 3
    /\ is_backspace(app.key_strokes[3].key)
    /\ app.token_index = 1
    /\ app.current_word = << >>
    /\ app.current_string = <<"a", " ">>

\* C33: at every Typing-to-Finished transition total_chars_typed is at least
\* the length of the raw reference text and greater than 0, and the cached
\* accuracy lies in (0, 100], equal to 100 exactly when total_chars_typed is
\* the length of the raw text.
C33_AccuracyInRange ==
    [][ (Typing /\ app'.mode = 1) =>
          /\ app'.total_chars_typed >= Len(app'.text_backup)
          /\ app'.total_chars_typed > 0
          /\ RatLess(Zero, app'.accuracy)
          /\ ~RatLess(Hundred, app'.accuracy)
          /\ app'.accuracy.den # 0
          /\ (app'.accuracy = Hundred) <=> (app'.total_chars_typed = Len(app'.text_backup)) ]_vars

\* C34: the reference text (raw text, tokens, id) is replaced only by a text
\* switch, and only when no run is in progress (first_key_pressed is false)
\* and no replay is running; the wrapped text changes only with a switch or
\* with a new window width; every successful switch leaves the session in a
\* fresh Typing state.
C34_NoSwitchDuringRun ==
    [][ /\ ( \/ app'.text_backup # app.text_backup
             \/ app'.tokens # app.tokens
             \/ app'.text_id # app.text_id ) =>
              /\ ~app.first_key_pressed
              /\ replay_pos = 0
              /\ switches' = switches + 1
        /\ app'.text # app.text =>
              \/ switches' = switches + 1
              \/ app'.window_width # app.window_width
        /\ switches' = switches + 1 =>
              /\ Running'
              /\ Fresh(app')
              /\ replay_pos' = 0 ]_vars

\* An arrow key was pressed in the middle of a run: it was logged and the
\* session still holds the text it was built on
C34_Witness ==
    /\ Running /\ Typing /\ app.first_key_pressed
    /\ Len(app.key_strokes) = 2
    /\ app.key_strokes[2].key = Key("KeyLeft")
    /\ switches = 0
    /\ app.text_id = to_string(row_count)
    /\ app.tokens = <<<<"a">>, <<"a", "a">>>>

====
